---------------------------- MODULE Spec2Model ----------------------------
(***************************************************************************)
(* Model of package graceful (TV4/graceful): graceful shutdown of an HTTP  *)
(* server.  The main goroutine runs one of the entry points                *)
(* (LogListenAndServe, ListenAndServe, ListenAndServeTLS, Shutdown, or     *)
(* shutdown called directly as the tests do); the accept loop, the         *)
(* deadline waiter and the handler's Shutdown run on goroutines of their   *)
(* own.  One action per Go statement; program counters are named after    *)
(* the source line of the statement about to run.                          *)
(*                                                                         *)
(* Time is an integer clock `now` counted in ticks of half a second; it    *)
(* starts when the context of line 169 is created, the only instant the   *)
(* code measures from.                                                     *)
(***************************************************************************)
EXTENDS Integers, Sequences, FiniteSets, TLC

\* ------------------------------------------------------------------ bounds
MaxTimeout == 3        \* largest Timeout drawn, in ticks
MaxLate == 1           \* the clock may advance this far past the deadline
MaxCalls == 2          \* calls of an entry point with a nil server

\* ---------------------------------------------------------- time arithmetic
\* time.Second, in ticks
Second == 2

\* Go's integer division truncates toward zero
GoDiv(a, b) == IF a >= 0 THEN a \div b ELSE -((-a) \div b)

\* Secs without the half second added: the division alone, which truncates
SecsTruncated(deadline, t) == GoDiv(deadline - t, Second)

\* secs := (time.Until(deadline) + time.Second/2) / time.Second
Secs(deadline, t) == GoDiv((deadline - t) + GoDiv(Second, 2), Second)

\* a negative Timeout, zero, and the positive ones up to the bound
Timeouts == {0 - 1} \cup 0..MaxTimeout

\* ------------------------------------------------------------------- state
VARIABLES
    srv,        \* the Shutdowner passed in: "nil", "http" (*http.Server), "other"
    hook,       \* hs.Handler implements Shutdowner
    addrOK,     \* net.SplitHostPort(hs.Addr) succeeds
    Timeout,    \* package variable Timeout
    logger,     \* package variable logger: "discard", "stdout", "custom"
    lg,         \* shutdown's parameter logger: "none" before the call, "nil", ...
    log,        \* the Printf calls made so far, in order
    entry,      \* the entry point the main goroutine is in (the two
                \* ListenAndServe functions are not told apart)
    pc,         \* the main goroutine's position
    calls,      \* entry-point calls made
    acc,        \* the accept-loop goroutine
    accErr,     \* what ListenAndServe / ListenAndServeTLS returned
    fatals,     \* calls of logger.Fatal
    aborted,    \* logger.Fatal has ended the process
    registered, \* signal.Notify(signals, ...) has been called
    sigbuf,     \* signals waiting in the channel (capacity 1)
    sigRecv,    \* receives from the signals channel
    killed,     \* a signal arrived with no handler registered
    now,        \* the clock
    ctx,        \* the context of line 169: [made, deadline, err]
    tmoRead,    \* the Timeout read at line 169
    readDl,     \* the deadlines ctx.Deadline() returned at lines 188 and 212
    srvState,   \* s.Shutdown(ctx): "idle", "running", "returned"
    srvErr,     \* what s.Shutdown returned
    srvCalls,   \* calls of s.Shutdown
    srvCtx,     \* deadlines of the contexts passed to s.Shutdown
    waiter,     \* the goroutine of lines 195-198
    hnd,        \* the goroutine of lines 200-202
    hErr,       \* what hss.Shutdown returned
    hCalls,     \* calls of hss.Shutdown
    hCtx,       \* deadlines of the contexts passed to hss.Shutdown
    hWhen,      \* when hss.Shutdown returned: "early" (before the deadline
                \* instant), "due" (at or after it, the context not yet
                \* done) or "expired" (the context done); "none" before
    sendq,      \* goroutines blocked sending on done, first come first served
    recvd       \* what the main goroutine received from done

vars == <<srv, hook, addrOK, Timeout, logger, lg, log, entry, pc, calls, acc,
          accErr, fatals, aborted, registered, sigbuf, sigRecv, killed,
          now, ctx, tmoRead, readDl, srvState, srvErr, srvCalls, srvCtx,
          waiter, hnd, hErr, hCalls, hCtx, hWhen, sendq, recvd>>

cfgVars == <<srv, hook, addrOK, Timeout>>
accVars == <<acc, accErr, fatals, aborted>>
sigVars == <<registered, sigbuf, sigRecv, killed>>
srvVars == <<srvState, srvErr, srvCalls, srvCtx>>
raceVars == <<waiter, hnd, hErr, hCalls, hCtx, hWhen, sendq, recvd>>
ctxVars == <<ctx, tmoRead, readDl>>

NoCtx == [made |-> FALSE, deadline |-> 0, err |-> "nil"]

Line(kind, n, err) == [kind |-> kind, n |-> n, err |-> err]

\* logger.Printf(format, v...)
Printf(kind, n, err) == log' = Append(log, Line(kind, n, err))

Alive == ~aborted /\ ~killed

Init ==
    /\ srv \in {"nil", "http", "other"}
    /\ hook \in BOOLEAN
    /\ addrOK \in BOOLEAN
    /\ (srv # "http" => ~hook /\ ~addrOK)
    /\ Timeout \in Timeouts
    /\ logger = "discard"
    /\ lg = "none"
    /\ log = <<>>
    /\ entry = "none"
    /\ pc = "idle"
    /\ calls = 0
    /\ acc = "none"
    /\ accErr = "none"
    /\ fatals = 0
    /\ aborted = FALSE
    /\ registered = FALSE
    /\ sigbuf = 0
    /\ sigRecv = 0
    /\ killed = FALSE
    /\ now = 0
    /\ ctx = NoCtx
    /\ tmoRead = 0
    /\ readDl = {}
    /\ srvState = "idle"
    /\ srvErr = "none"
    /\ srvCalls = 0
    /\ srvCtx = {}
    /\ waiter = "none"
    /\ hnd = "none"
    /\ hErr = "none"
    /\ hCalls = 0
    /\ hCtx = {}
    /\ hWhen = "none"
    /\ sendq = <<>>
    /\ recvd = "none"


\* ------------------------------------------------------------ environment
\* the clock advances
Tick ==
    /\ Alive
    /\ ctx.made
    /\ now < (IF ctx.deadline > 0 THEN ctx.deadline ELSE 0) + MaxLate
    /\ now' = now + 1
    /\ UNCHANGED <<cfgVars, logger, lg, log, entry, pc, calls, accVars, sigVars,
                   ctxVars, srvVars, raceVars>>

\* os.Interrupt or syscall.SIGTERM reaches the process: signal.Notify's
\* non-blocking send into the channel of capacity 1, or the default
\* disposition (the process ends) when nothing is registered
Signal ==
    /\ Alive
    /\ IF registered
         THEN /\ sigbuf' = 1
              /\ killed' = killed
         ELSE /\ killed' = TRUE
              /\ sigbuf' = sigbuf
    /\ UNCHANGED <<cfgVars, logger, lg, log, entry, pc, calls, accVars,
                   registered, sigRecv, now, ctxVars, srvVars, raceVars>>

\* the timer of context.WithTimeout fires at or after the deadline
CtxTimerFire ==
    /\ Alive
    /\ ctx.made /\ ctx.err = "nil"
    /\ now >= ctx.deadline
    /\ ctx' = [ctx EXCEPT !.err = "DeadlineExceeded"]
    /\ UNCHANGED <<cfgVars, logger, lg, log, entry, pc, calls, accVars, sigVars,
                   now, tmoRead, readDl, srvVars, raceVars>>

\* ----------------------------------------------------------- entry points
\* getLogger(loggers ...Logger)
getLogger(loggers) ==
    IF loggers # "none"
      THEN IF loggers # "nil" THEN loggers ELSE "discard"
      ELSE "stdout"

\* shutdown(s, logger) called directly, as TestShutdown does
CallShutdownDirect(l) ==
    /\ Alive /\ pc = "idle"
    /\ entry' = "shutdown"
    /\ lg' = l
    /\ pc' = "L161"
    /\ calls' = calls + 1
    /\ UNCHANGED <<cfgVars, logger, log, accVars, sigVars, now, ctxVars,
                   srvVars, raceVars>>

\* Shutdown(s)
CallShutdown ==
    /\ Alive /\ pc = "idle"
    /\ entry' = "Shutdown"
    /\ pc' = "L151"
    /\ calls' = calls + 1
    /\ UNCHANGED <<cfgVars, logger, lg, log, accVars, sigVars, now, ctxVars,
                   srvVars, raceVars>>

\* ListenAndServe(s); a nil Server panics in the goroutine and is left out
CallListenAndServe ==
    /\ Alive /\ pc = "idle" /\ srv # "nil"
    /\ entry' = "ListenAndServe"
    /\ pc' = "L128"
    /\ calls' = calls + 1
    /\ UNCHANGED <<cfgVars, logger, lg, log, accVars, sigVars, now, ctxVars,
                   srvVars, raceVars>>

\* ListenAndServeTLS(s, certFile, keyFile)
CallListenAndServeTLS ==
    /\ Alive /\ pc = "idle" /\ srv # "nil"
    /\ entry' = "ListenAndServe"
    /\ pc' = "L139"
    /\ calls' = calls + 1
    /\ UNCHANGED <<cfgVars, logger, lg, log, accVars, sigVars, now, ctxVars,
                   srvVars, raceVars>>

\* LogListenAndServe(s, loggers...), lines 111-112
CallLogListenAndServe(loggers) ==
    /\ Alive /\ pc = "idle" /\ srv # "nil"
    /\ entry' = "LogListenAndServe"
    /\ logger' = IF srv = "http" THEN getLogger(loggers) ELSE logger
    /\ pc' = IF srv = "http" THEN "L114" ELSE "L123"
    /\ calls' = calls + 1
    /\ UNCHANGED <<cfgVars, lg, log, accVars, sigVars, now, ctxVars, srvVars,
                   raceVars>>

\* LogListening without the err == nil test of line 114
LogListeningAlways ==
    /\ Alive /\ pc = "L114"
    /\ Printf("listening", 0, "")
    /\ pc' = "L123"
    /\ UNCHANGED <<cfgVars, logger, lg, entry, calls, accVars, sigVars, now,
                   ctxVars, srvVars, raceVars>>

\* lines 114-120: the listening line, when the address parses
LogListening ==
    /\ Alive /\ pc = "L114"
    /\ IF addrOK THEN Printf("listening", 0, "") ELSE log' = log
    /\ pc' = "L123"
    /\ UNCHANGED <<cfgVars, logger, lg, entry, calls, accVars, sigVars, now,
                   ctxVars, srvVars, raceVars>>

\* line 123: ListenAndServe(s)
LogThenListenAndServe ==
    /\ Alive /\ pc = "L123"
    /\ pc' = "L128"
    /\ UNCHANGED <<cfgVars, logger, lg, log, entry, calls, accVars, sigVars,
                   now, ctxVars, srvVars, raceVars>>

\* lines 128-132 and 139-143: go func() { ... }()
SpawnAcceptLoop ==
    /\ Alive /\ pc \in {"L128", "L139"}
    /\ acc' = "spawned"
    /\ pc' = "L151"
    /\ UNCHANGED <<cfgVars, logger, lg, log, entry, calls, accErr, fatals,
                   aborted, sigVars, now, ctxVars, srvVars, raceVars>>

\* a further call with a nil server, as the tests make in one process
RepeatCall ==
    /\ Alive /\ pc = "returned" /\ srv = "nil"
    /\ calls < MaxCalls
    /\ pc' = "idle"
    /\ entry' = "none"
    /\ lg' = "none"
    /\ UNCHANGED <<cfgVars, logger, log, calls, accVars, sigVars, now, ctxVars,
                   srvVars, raceVars>>

\* ------------------------------------------------------ accept-loop goroutine
\* the goroutine starts: s.ListenAndServe() / s.ListenAndServeTLS(...)
AcceptStart ==
    /\ Alive /\ acc = "spawned"
    /\ acc' = "serving"
    /\ UNCHANGED <<cfgVars, logger, lg, log, entry, pc, calls, accErr, fatals,
                   aborted, sigVars, now, ctxVars, srvVars, raceVars>>

\* what the listen-and-serve call may return: *http.Server returns
\* http.ErrServerClosed once Shutdown has been called and never returns nil
AcceptErrs ==
    {"other"}
      \cup (IF srv = "other" \/ srvCalls > 0 THEN {"ErrServerClosed"} ELSE {})
      \cup (IF srv = "other" THEN {"nil"} ELSE {})

\* the listen-and-serve call returns err
AcceptReturn(err) ==
    /\ Alive /\ acc = "serving"
    /\ err \in AcceptErrs
    /\ accErr' = err
    /\ acc' = "returned"
    /\ UNCHANGED <<cfgVars, logger, lg, log, entry, pc, calls, fatals, aborted,
                   sigVars, now, ctxVars, srvVars, raceVars>>

\* err != nil
IsFatalNonNil(err) == err # "nil"

\* err != http.ErrServerClosed
IsFatal(err) == err # "ErrServerClosed"

\* lines 129-131 and 140-142: if err != http.ErrServerClosed { logger.Fatal(err) }
AcceptCheck ==
    /\ Alive /\ acc = "returned"
    /\ IF IsFatal(accErr)
         THEN /\ fatals' = fatals + 1
              /\ aborted' = TRUE
              /\ acc' = "fatal"
         ELSE /\ acc' = "exited"
              /\ UNCHANGED <<fatals, aborted>>
    /\ UNCHANGED <<cfgVars, logger, lg, log, entry, pc, calls, accErr, sigVars,
                   now, ctxVars, srvVars, raceVars>>

\* --------------------------------------------------------------- Shutdown
\* line 151: signals = make(chan os.Signal, 1)
MakeSignals ==
    /\ Alive /\ pc = "L151"
    /\ sigbuf' = 0
    /\ pc' = "L153"
    /\ UNCHANGED <<cfgVars, logger, lg, log, entry, calls, accVars, registered,
                   sigRecv, killed, now, ctxVars, srvVars, raceVars>>

\* line 153: signal.Notify(signals, os.Interrupt, syscall.SIGTERM)
Notify ==
    /\ Alive /\ pc = "L153"
    /\ registered' = TRUE
    /\ pc' = "L155"
    /\ UNCHANGED <<cfgVars, logger, lg, log, entry, calls, accVars, sigbuf,
                   sigRecv, killed, now, ctxVars, srvVars, raceVars>>

\* lines 155-157: <-signals, then shutdown(s, logger)
WaitSignal ==
    /\ Alive /\ pc = "L155"
    /\ sigbuf > 0
    /\ sigbuf' = sigbuf - 1
    /\ sigRecv' = sigRecv + 1
    /\ lg' = logger
    /\ pc' = "L161"
    /\ UNCHANGED <<cfgVars, logger, log, entry, calls, accVars, registered,
                   killed, now, ctxVars, srvVars, raceVars>>

\* --------------------------------------------------------------- shutdown
\* CheckNil without the check
CheckNilMissing ==
    /\ Alive /\ pc = "L161"
    /\ pc' = "L165"
    /\ UNCHANGED <<cfgVars, logger, lg, log, entry, calls, accVars, sigVars,
                   now, ctxVars, srvVars, raceVars>>

\* lines 161-163: if s == nil { return }
CheckNil ==
    /\ Alive /\ pc = "L161"
    /\ pc' = IF srv = "nil" THEN "returned" ELSE "L165"
    /\ UNCHANGED <<cfgVars, logger, lg, log, entry, calls, accVars, sigVars,
                   now, ctxVars, srvVars, raceVars>>

\* DefaultLogger treating a nil logger as the nil server is treated
DefaultLoggerReturns ==
    /\ Alive /\ pc = "L165"
    /\ lg' = lg
    /\ pc' = IF lg = "nil" THEN "returned" ELSE "L169"
    /\ UNCHANGED <<cfgVars, logger, log, entry, calls, accVars, sigVars, now,
                   ctxVars, srvVars, raceVars>>

\* lines 165-167: if logger == nil { logger = log.New(ioutil.Discard, "", 0) }
DefaultLogger ==
    /\ Alive /\ pc = "L165"
    /\ lg' = IF lg = "nil" THEN "discard" ELSE lg
    /\ pc' = "L169"
    /\ UNCHANGED <<cfgVars, logger, log, entry, calls, accVars, sigVars, now,
                   ctxVars, srvVars, raceVars>>

\* context.WithTimeout(context.Background(), d) at time t: a deadline that
\* has already passed gives a context that is expired from the start
WithTimeout(d, t) ==
    [made |-> TRUE, deadline |-> t + d,
     err |-> IF d <= 0 THEN "DeadlineExceeded" ELSE "nil"]

\* line 169: ctx, cancel := context.WithTimeout(context.Background(), Timeout)
MakeCtx ==
    /\ Alive /\ pc = "L169"
    /\ tmoRead' = Timeout
    /\ ctx' = WithTimeout(Timeout, now)
    /\ pc' = "L172"
    /\ UNCHANGED <<cfgVars, logger, lg, log, entry, calls, accVars, sigVars,
                   now, readDl, srvVars, raceVars>>

\* line 172: logger.Printf(ShutdownFormat, Timeout)
Announce ==
    /\ Alive /\ pc = "L172"
    /\ Printf("shutdown", Timeout, "")
    /\ pc' = "L174"
    /\ UNCHANGED <<cfgVars, logger, lg, entry, calls, accVars, sigVars, now,
                   ctxVars, srvVars, raceVars>>

\* line 174: s.Shutdown(ctx) is called
SrvShutdownCall ==
    /\ Alive /\ pc = "L174"
    /\ srvState' = "running"
    /\ srvCalls' = srvCalls + 1
    /\ srvCtx' = srvCtx \cup {ctx.deadline}
    /\ pc' = "L174w"
    /\ UNCHANGED <<cfgVars, logger, lg, log, entry, calls, accVars, sigVars,
                   now, ctxVars, srvErr, raceVars>>

\* what a Shutdown(ctx) may return: nil, a fault of its own, or ctx.Err()
\* once the context is done
ShutdownErrs == {"nil", "other"} \cup (IF ctx.err # "nil" THEN {ctx.err} ELSE {})

\* line 174: s.Shutdown(ctx) returns err
SrvShutdownReturn(err) ==
    /\ Alive /\ pc = "L174w"
    /\ err \in ShutdownErrs
    /\ srvState' = "returned"
    /\ srvErr' = err
    /\ pc' = "L175"
    /\ UNCHANGED <<cfgVars, logger, lg, log, entry, calls, accVars, sigVars,
                   now, ctxVars, srvCalls, srvCtx, raceVars>>

\* CheckSrvErr with the error ignored: the handler phase runs whatever
\* s.Shutdown returned
CheckSrvErrIgnored ==
    /\ Alive /\ pc = "L175"
    /\ log' = log
    /\ pc' = "L177"
    /\ UNCHANGED <<cfgVars, logger, lg, entry, calls, accVars, sigVars, now,
                   ctxVars, srvVars, raceVars>>

\* CheckSrvErr with the else lost: the error is logged and the success path
\* runs all the same
CheckSrvErrNoElse ==
    /\ Alive /\ pc = "L175"
    /\ IF srvErr # "nil" THEN Printf("error", 0, srvErr) ELSE log' = log
    /\ pc' = "L177"
    /\ UNCHANGED <<cfgVars, logger, lg, entry, calls, accVars, sigVars, now,
                   ctxVars, srvVars, raceVars>>

\* lines 174-176: if err != nil { logger.Printf(ErrorFormat, err) } else { ...
CheckSrvErr ==
    /\ Alive /\ pc = "L175"
    /\ IF srvErr # "nil"
         THEN /\ Printf("error", 0, srvErr)
              /\ pc' = "defer"
         ELSE /\ log' = log
              /\ pc' = "L177"
    /\ UNCHANGED <<cfgVars, logger, lg, entry, calls, accVars, sigVars, now,
                   ctxVars, srvVars, raceVars>>

\* lines 177-178: if hs, ok := s.(*http.Server); ok { logger.Printf(FinishedHTTP)
FinishedHTTP ==
    /\ Alive /\ pc = "L177"
    /\ IF srv = "http"
         THEN /\ Printf("finishedHTTP", 0, "")
              /\ pc' = "L180"
         ELSE /\ log' = log
              /\ pc' = "L212"
    /\ UNCHANGED <<cfgVars, logger, lg, entry, calls, accVars, sigVars, now,
                   ctxVars, srvVars, raceVars>>

\* line 180: if hss, ok := hs.Handler.(Shutdowner); ok {
ProbeHandler ==
    /\ Alive /\ pc = "L180"
    /\ pc' = IF hook THEN "L181" ELSE "L212"
    /\ UNCHANGED <<cfgVars, logger, lg, log, entry, calls, accVars, sigVars,
                   now, ctxVars, srvVars, raceVars>>

\* PreCheck with the return lost: the expiry is logged and the handler
\* phase runs all the same
PreCheckNoReturn ==
    /\ Alive /\ pc = "L181"
    /\ IF ctx.err # "nil" THEN Printf("error", 0, ctx.err) ELSE log' = log
    /\ pc' = "L188"
    /\ UNCHANGED <<cfgVars, logger, lg, entry, calls, accVars, sigVars, now,
                   ctxVars, srvVars, raceVars>>

\* PreCheck without the select: the handler phase runs whatever the context
PreCheckBlind ==
    /\ Alive /\ pc = "L181"
    /\ log' = log
    /\ pc' = "L188"
    /\ UNCHANGED <<cfgVars, logger, lg, entry, calls, accVars, sigVars, now,
                   ctxVars, srvVars, raceVars>>

\* lines 181-187: select { case <-ctx.Done(): ... return; default: ...
PreCheck ==
    /\ Alive /\ pc = "L181"
    /\ IF ctx.err # "nil"
         THEN /\ Printf("error", 0, ctx.err)
              /\ pc' = "defer"
         ELSE /\ log' = log
              /\ pc' = "L188"
    /\ UNCHANGED <<cfgVars, logger, lg, entry, calls, accVars, sigVars, now,
                   ctxVars, srvVars, raceVars>>

\* AnnounceHandler with the seconds truncated instead of rounded
AnnounceHandlerTruncated ==
    /\ Alive /\ pc = "L188"
    /\ readDl' = readDl \cup {ctx.deadline}
    /\ Printf("handlerShutdown", SecsTruncated(ctx.deadline, now), "")
    /\ pc' = "L193"
    /\ UNCHANGED <<cfgVars, logger, lg, entry, calls, accVars, sigVars, now,
                   ctx, tmoRead, srvVars, raceVars>>

\* lines 188-191: the remaining seconds, logged with HandlerShutdownFormat
AnnounceHandler ==
    /\ Alive /\ pc = "L188"
    /\ readDl' = readDl \cup {ctx.deadline}
    /\ Printf("handlerShutdown", Secs(ctx.deadline, now), "")
    /\ pc' = "L193"
    /\ UNCHANGED <<cfgVars, logger, lg, entry, calls, accVars, sigVars, now,
                   ctx, tmoRead, srvVars, raceVars>>

\* line 193: done := make(chan error)
MakeDone ==
    /\ Alive /\ pc = "L193"
    /\ sendq' = <<>>
    /\ pc' = "L195"
    /\ UNCHANGED <<cfgVars, logger, lg, log, entry, calls, accVars, sigVars,
                   now, ctxVars, srvVars, waiter, hnd, hErr, hCalls, hCtx, hWhen,
                   recvd>>

\* SpawnWaiter without the goroutine: the handler's Shutdown is awaited alone
SpawnNoWaiter ==
    /\ Alive /\ pc = "L195"
    /\ waiter' = waiter
    /\ pc' = "L200"
    /\ UNCHANGED <<cfgVars, logger, lg, log, entry, calls, accVars, sigVars,
                   now, ctxVars, srvVars, hnd, hErr, hCalls, hCtx, hWhen, sendq,
                   recvd>>

\* lines 195-198: go func() { <-ctx.Done(); done <- ctx.Err() }()
SpawnWaiter ==
    /\ Alive /\ pc = "L195"
    /\ waiter' = "L196"
    /\ pc' = "L200"
    /\ UNCHANGED <<cfgVars, logger, lg, log, entry, calls, accVars, sigVars,
                   now, ctxVars, srvVars, hnd, hErr, hCalls, hCtx, hWhen, sendq,
                   recvd>>

\* lines 200-202: go func() { done <- hss.Shutdown(ctx) }()
SpawnHandler ==
    /\ Alive /\ pc = "L200"
    /\ hnd' = "L201"
    /\ pc' = "L204"
    /\ UNCHANGED <<cfgVars, logger, lg, log, entry, calls, accVars, sigVars,
                   now, ctxVars, srvVars, waiter, hErr, hCalls, hCtx, hWhen, sendq,
                   recvd>>

\* the goroutine that a received value came from has finished its send
Delivered(from, g, state) == IF g = from THEN "exited" ELSE state

\* RecvDone with the return lost: the error is logged and the finished line
\* follows
RecvDoneNoReturn ==
    /\ Alive /\ pc = "L204"
    /\ sendq # <<>>
    /\ recvd' = Head(sendq).err
    /\ sendq' = Tail(sendq)
    /\ waiter' = Delivered(Head(sendq).from, "waiter", waiter)
    /\ hnd' = Delivered(Head(sendq).from, "handler", hnd)
    /\ IF Head(sendq).err # "nil"
         THEN Printf("error", 0, Head(sendq).err)
         ELSE log' = log
    /\ pc' = "L212"
    /\ UNCHANGED <<cfgVars, logger, lg, entry, calls, accVars, sigVars, now,
                   ctxVars, srvVars, hErr, hCalls, hCtx, hWhen>>

\* lines 204-207: if err := <-done; err != nil { logger.Printf(ErrorFormat, err); return }
\* senders blocked on the unbuffered channel are served first come first served
RecvDone ==
    /\ Alive /\ pc = "L204"
    /\ sendq # <<>>
    /\ recvd' = Head(sendq).err
    /\ sendq' = Tail(sendq)
    /\ waiter' = Delivered(Head(sendq).from, "waiter", waiter)
    /\ hnd' = Delivered(Head(sendq).from, "handler", hnd)
    /\ IF Head(sendq).err # "nil"
         THEN /\ Printf("error", 0, Head(sendq).err)
              /\ pc' = "defer"
         ELSE /\ log' = log
              /\ pc' = "L212"
    /\ UNCHANGED <<cfgVars, logger, lg, entry, calls, accVars, sigVars, now,
                   ctxVars, srvVars, hErr, hCalls, hCtx, hWhen>>

\* lines 212-215: the remaining seconds, logged with FinishedFormat
Finished ==
    /\ Alive /\ pc = "L212"
    /\ readDl' = readDl \cup {ctx.deadline}
    /\ Printf("finished", Secs(ctx.deadline, now), "")
    /\ pc' = "defer"
    /\ UNCHANGED <<cfgVars, logger, lg, entry, calls, accVars, sigVars, now,
                   ctx, tmoRead, srvVars, raceVars>>

\* Return into a loop over the signals channel: Shutdown waits again
ReturnAndWaitAgain ==
    /\ Alive /\ pc = "defer"
    /\ ctx' = [ctx EXCEPT !.err = IF ctx.err = "nil" THEN "Canceled" ELSE ctx.err]
    /\ pc' = IF entry = "shutdown" THEN "returned" ELSE "L155"
    /\ UNCHANGED <<cfgVars, logger, lg, log, entry, calls, accVars, sigVars,
                   now, tmoRead, readDl, srvVars, raceVars>>

\* line 170: the deferred cancel() runs and shutdown returns; so do Shutdown
\* and the entry point that called it
Return ==
    /\ Alive /\ pc = "defer"
    /\ ctx' = [ctx EXCEPT !.err = IF ctx.err = "nil" THEN "Canceled" ELSE ctx.err]
    /\ pc' = "returned"
    /\ UNCHANGED <<cfgVars, logger, lg, log, entry, calls, accVars, sigVars,
                   now, tmoRead, readDl, srvVars, raceVars>>

\* ------------------------------------------------------- deadline waiter
\* line 196: <-ctx.Done()
WaiterWake ==
    /\ Alive /\ waiter = "L196"
    /\ ctx.err # "nil"
    /\ waiter' = "L197"
    /\ UNCHANGED <<cfgVars, logger, lg, log, entry, pc, calls, accVars, sigVars,
                   now, ctxVars, srvVars, hnd, hErr, hCalls, hCtx, hWhen, sendq,
                   recvd>>

\* line 197: done <- ctx.Err() blocks until the main goroutine receives
WaiterSend ==
    /\ Alive /\ waiter = "L197"
    /\ sendq' = Append(sendq, [from |-> "waiter", err |-> ctx.err])
    /\ waiter' = "sending"
    /\ UNCHANGED <<cfgVars, logger, lg, log, entry, pc, calls, accVars, sigVars,
                   now, ctxVars, srvVars, hnd, hErr, hCalls, hCtx, hWhen, recvd>>

\* ----------------------------------------------------- handler goroutine
\* a context of its own for the handler, with a timeout counted from now
HandlerCtxFresh == WithTimeout(Timeout, now)

\* the context handed to hss.Shutdown
HandlerCtx == ctx

\* line 201: hss.Shutdown(ctx) is called
HandlerCall ==
    /\ Alive /\ hnd = "L201"
    /\ hnd' = "running"
    /\ hCalls' = hCalls + 1
    /\ hCtx' = hCtx \cup {HandlerCtx.deadline}
    /\ hWhen' = hWhen
    /\ UNCHANGED <<cfgVars, logger, lg, log, entry, pc, calls, accVars, sigVars,
                   now, ctxVars, srvVars, waiter, hErr, sendq, recvd>>

\* line 201: hss.Shutdown(ctx) returns err, and done <- err blocks until the
\* main goroutine receives
HandlerReturn(err) ==
    /\ Alive /\ hnd = "running"
    /\ err \in ShutdownErrs
    /\ hErr' = err
    /\ hWhen' = IF ctx.err # "nil" THEN "expired"
                ELSE IF now < ctx.deadline THEN "early" ELSE "due"
    /\ sendq' = Append(sendq, [from |-> "handler", err |-> err])
    /\ hnd' = "sending"
    /\ UNCHANGED <<cfgVars, logger, lg, log, entry, pc, calls, accVars, sigVars,
                   now, ctxVars, srvVars, waiter, hCalls, hCtx, recvd>>

\* ------------------------------------------------------------ specification
Loggers == {"nil", "custom"}

Variadic == {"none", "nil", "custom"}

Errors == {"nil", "other", "DeadlineExceeded", "Canceled"}

ServeErrors == {"nil", "other", "ErrServerClosed"}

Next ==
    \/ Tick
    \/ Signal
    \/ CtxTimerFire
    \/ \E l \in Loggers : CallShutdownDirect(l)
    \/ CallShutdown
    \/ CallListenAndServe
    \/ CallListenAndServeTLS
    \/ \E ls \in Variadic : CallLogListenAndServe(ls)
    \/ LogListening
    \/ LogThenListenAndServe
    \/ SpawnAcceptLoop
    \/ RepeatCall
    \/ AcceptStart
    \/ \E e \in ServeErrors : AcceptReturn(e)
    \/ AcceptCheck
    \/ MakeSignals
    \/ Notify
    \/ WaitSignal
    \/ CheckNil
    \/ DefaultLogger
    \/ MakeCtx
    \/ Announce
    \/ SrvShutdownCall
    \/ \E e \in Errors : SrvShutdownReturn(e)
    \/ CheckSrvErr
    \/ FinishedHTTP
    \/ ProbeHandler
    \/ PreCheck
    \/ AnnounceHandler
    \/ MakeDone
    \/ SpawnWaiter
    \/ SpawnHandler
    \/ RecvDone
    \/ Finished
    \/ Return
    \/ WaiterWake
    \/ WaiterSend
    \/ HandlerCall
    \/ \E e \in Errors : HandlerReturn(e)

Spec == Init /\ [][Next]_vars

\* the statements of shutdown that follow the return of s.Shutdown: the main
\* goroutine is at one of them at a time
MainStep ==
    \/ CheckSrvErr
    \/ FinishedHTTP
    \/ ProbeHandler
    \/ PreCheck
    \/ AnnounceHandler
    \/ MakeDone
    \/ SpawnWaiter
    \/ SpawnHandler
    \/ RecvDone
    \/ Finished
    \/ Return

\* the statements of the deadline waiter
WaiterStep == WaiterWake \/ WaiterSend

\* the scheduler runs every goroutine that can run, the clock advances and
\* the context's timer fires; nothing makes a collaborator's Shutdown or
\* ListenAndServe return, and nothing makes a signal arrive
Fairness ==
    /\ WF_vars(Tick)
    /\ WF_vars(CtxTimerFire)
    /\ WF_vars(MainStep)
    /\ WF_vars(WaiterStep)

LiveSpec == Init /\ [][Next]_vars /\ Fairness

\* ------------------------------------------------------------------ claims
\* the lines shutdown logged: the log without LogListenAndServe's line
ShutdownLog == SelectSeq(log, LAMBDA l : l.kind # "listening")

Kinds(lines) == [i \in DOMAIN lines |-> lines[i].kind]

ErrorLines == SelectSeq(log, LAMBDA l : l.kind = "error")

Logged(kind) == \E i \in DOMAIN log : log[i].kind = kind

\* the nearest whole number of seconds to d ticks, a half rounding up
RoundSecs(d) == (2 * d + Second) \div (2 * Second)

\* C1: the Handler's Shutdown is invoked only after the Server's Shutdown has
\* returned, and only if it returned no error; after an error of the
\* Server's Shutdown the Handler's Shutdown is never invoked.
C1_HandlerOnlyAfterServerOk ==
    /\ (hnd # "none" \/ hCalls > 0) => (srvState = "returned" /\ srvErr = "nil")
    /\ srvErr \notin {"none", "nil"} => (hnd = "none" /\ hCalls = 0)

C1_Witness == hnd = "running" /\ hCalls = 1 /\ srvErr = "nil"

\* C2: once the Server's Shutdown has returned successfully, shutdown()
\* returns (or the process has ended), even if the Handler's Shutdown never
\* returns; while the main goroutine waits on done with the context
\* expired, the deadline waiter is on its way to deliver or has delivered.
C2_ReturnsByDeadline ==
    /\ [](pc = "L204" /\ ctx.err # "nil" /\ sendq = <<>>
            => waiter \in {"L196", "L197"})
    /\ (srvState = "returned" /\ srvErr = "nil") ~> (pc = "returned" \/ ~Alive)

C2_Witness ==
    /\ pc = "returned" /\ hnd = "running"
    /\ recvd = "DeadlineExceeded" /\ waiter = "exited"

\* C3: the deadline is computed once and never reset: the Handler's Shutdown
\* gets the context the Server's Shutdown got, every remaining-time figure
\* is measured against that same deadline, and the deadline never changes.
C3_OneDeadline ==
    /\ [](/\ Cardinality(srvCtx) <= 1
          /\ hCtx \subseteq srvCtx
          /\ readDl \subseteq srvCtx
          /\ srvCtx \subseteq {ctx.deadline}
          /\ (ctx.made => ctx.deadline = tmoRead))
    /\ [][ctx.made => ctx'.made /\ ctx'.deadline = ctx.deadline]_vars

C3_Witness ==
    /\ pc = "returned" /\ hCalls = 1 /\ now > 0
    /\ Len(ShutdownLog) = 4 /\ readDl = hCtx

\* C4 as stated: for every Timeout T >= 0 and every Server whose Shutdown
\* succeeds at once, with no Handler hook, shutdown() logs exactly
\* shutdown-announce(T), finished-http-drain, finished-overall(round(T)).
C4_Original ==
    (/\ pc = "returned" /\ srv # "nil" /\ ~hook
     /\ Timeout >= 0 /\ srvErr = "nil" /\ now = 0)
    => ShutdownLog = << Line("shutdown", Timeout, ""),
                        Line("finishedHTTP", 0, ""),
                        Line("finished", RoundSecs(Timeout), "") >>

\* C4 amended: that holds for a Server that is an *http.Server; for any
\* other Server the finished-http-drain line is left out.
C4_Amended ==
    (/\ pc = "returned" /\ srv # "nil" /\ ~hook
     /\ Timeout >= 0 /\ srvErr = "nil" /\ now = 0)
    => ShutdownLog =
         IF srv = "http"
           THEN << Line("shutdown", Timeout, ""),
                   Line("finishedHTTP", 0, ""),
                   Line("finished", RoundSecs(Timeout), "") >>
           ELSE << Line("shutdown", Timeout, ""),
                   Line("finished", RoundSecs(Timeout), "") >>

C4_Witness ==
    /\ pc = "returned" /\ srv = "http" /\ ~hook /\ srvErr = "nil" /\ now = 0
    /\ Timeout = 1 /\ Len(ShutdownLog) = 3 /\ ShutdownLog[3].n = 1

\* C5: if the Server's Shutdown returns an error, shutdown() logs
\* shutdown-announce(T), then exactly one error line, and returns; neither
\* finished-http-drain nor finished-overall is logged.
C5_ServerError ==
    srvErr \notin {"none", "nil"} =>
      /\ pc \in {"L175", "defer", "returned"}
      /\ ~Logged("finishedHTTP") /\ ~Logged("finished")
      /\ pc # "L175" =>
           ShutdownLog = << Line("shutdown", Timeout, ""),
                            Line("error", 0, srvErr) >>

C5_Witness ==
    /\ pc = "returned" /\ srvErr = "DeadlineExceeded"
    /\ Len(ShutdownLog) = 2

C7_Original ==
    (/\ pc = "returned" /\ hCalls > 0
     /\ \/ hnd = "running" /\ ctx.err = "DeadlineExceeded"
        \/ hWhen = "expired")
    => /\ Len(ErrorLines) = 1
       /\ ErrorLines[1].err = "DeadlineExceeded"
       /\ ~Logged("finished")

\* C8: with a nil Server shutdown() changes nothing: no line is logged, no
\* context is made, no Shutdown is invoked, and it returns at once, however
\* often it is called.
C8_NilServer ==
    srv = "nil" =>
      /\ log = <<>>
      /\ ~ctx.made
      /\ srvCalls = 0 /\ hCalls = 0 /\ srvState = "idle" /\ hnd = "none"
      /\ pc \in {"idle", "L151", "L153", "L155", "L161", "returned"}

C8_Witness == srv = "nil" /\ pc = "returned" /\ calls = MaxCalls

\* C9: the accept-loop goroutine calls logger.Fatal exactly when the
\* listen-and-serve call returned something other than http.ErrServerClosed;
\* when it returned http.ErrServerClosed the process is never aborted.
C9_FatalIffNotClosed ==
    /\ fatals <= 1
    /\ aborted = (fatals = 1)
    /\ (acc = "fatal") = (fatals = 1)
    /\ acc = "fatal" => accErr \in {"nil", "other"}
    /\ acc = "exited" => accErr = "ErrServerClosed"
    /\ accErr = "ErrServerClosed" => ~aborted /\ acc \in {"returned", "exited"}

C9_Witness ==
    /\ acc = "fatal" /\ accErr = "other" /\ srvState = "running"

\* C10: at most one shutdown cycle is serviced per call: the Server's and
\* the Handler's Shutdown are each invoked at most once, and a signal that
\* arrives during or after the shutdown does not bring the coordinator back
\* to waiting for a signal.
C10_OneCycle ==
    /\ srvCalls <= 1 /\ hCalls <= 1
    /\ sigRecv <= calls
    /\ pc \in {"L151", "L153", "L155"} => sigRecv < calls
    /\ srv # "nil" /\ sigRecv = 1 => pc \notin {"idle", "L151", "L153", "L155"}

C10_Witness ==
    /\ pc = "returned" /\ srvCalls = 1 /\ sigRecv = 1 /\ sigbuf = 1


\* a line of this kind is appended to the log in this step
Logs(kind) ==
    /\ Len(log') = Len(log) + 1
    /\ log'[Len(log')].kind = kind

FinishedLines == SelectSeq(log, LAMBDA l : l.kind = "finished")

\* C11 as stated, for a positive Timeout: when finished-overall is logged no
\* error line has been logged and the deadline has not passed (the
\* remaining time is not negative).
C11_Original ==
    [][Logs("finished") /\ Timeout > 0
         => ErrorLines = <<>> /\ now <= ctx.deadline /\ ctx.err = "nil"]_vars

\* C12: if the Handler exposes Shutdown and the context is already done at
\* the check of line 181, shutdown() logs exactly one error line, carrying
\* the expiry, and returns without spawning the race: the Handler's
\* Shutdown is never invoked, and neither handler-shutdown-announce nor
\* finished-overall is logged.
C12_ExpiredAtPreCheck ==
    /\ [][pc = "L181" /\ ctx.err # "nil" /\ pc' # pc
            => /\ pc' = "defer"
               /\ log' = Append(log, Line("error", 0, "DeadlineExceeded"))]_vars
    /\ [](hook /\ Kinds(ShutdownLog) = <<"shutdown", "finishedHTTP", "error">>
            => /\ ShutdownLog[3].err = "DeadlineExceeded"
               /\ pc \in {"defer", "returned"}
               /\ waiter = "none" /\ hnd = "none" /\ hCalls = 0)
    /\ [](hook /\ pc = "returned" /\ srvErr = "nil" /\ waiter = "none"
            => Kinds(ShutdownLog) = <<"shutdown", "finishedHTTP", "error">>)

C12_Witness ==
    /\ pc = "returned" /\ hook /\ Timeout > 0 /\ hCalls = 0
    /\ Kinds(ShutdownLog) = <<"shutdown", "finishedHTTP", "error">>

\* C13 as stated: when the Handler's Shutdown call starts, the deadline has
\* not expired and shutdown() has not returned.
C13_Original ==
    [][hCalls' > hCalls
         => ctx.err = "nil" /\ now <= ctx.deadline /\ pc # "returned"]_vars

\* C13 amended: the Handler's Shutdown call starts only after the check of
\* line 181 found the context not done: the goroutine is spawned only past
\* that check, and the call starts only in that goroutine.
C13_Amended ==
    /\ [][pc = "L181" /\ pc' \notin {"L181", "defer"} => ctx.err = "nil"]_vars
    /\ [][pc = "L181" /\ ctx.err = "nil" /\ pc' # pc => pc' = "L188"]_vars
    /\ [][hCalls' > hCalls => hnd = "L201" /\ Logged("handlerShutdown")]_vars
    /\ [](hnd # "none" \/ hCalls > 0
            => /\ Logged("handlerShutdown")
               /\ pc \in {"L204", "L212", "defer", "returned"})

C13_Witness ==
    /\ hnd = "running" /\ pc = "returned" /\ ctx.err = "DeadlineExceeded"
    /\ hWhen = "none" /\ waiter = "exited" /\ Timeout > 0

\* C14 as stated: once shutdown() has taken the winner's result and
\* returned, neither goroutine of the race is blocked on its send on done,
\* which nothing receives from any more.
C14_Original ==
    pc = "returned" => waiter # "sending" /\ hnd # "sending"

\* C15 as stated: a completed run of shutdown() with a non-nil Server has
\* logged exactly one of an error line and the finished-overall line; after
\* an error line nothing further is logged and no further Shutdown call
\* starts.
C15_Original ==
    /\ [](pc = "returned" /\ srv # "nil"
            => Len(ErrorLines) + Len(FinishedLines) = 1)
    /\ [][ErrorLines # <<>>
            => log' = log /\ srvCalls' = srvCalls /\ hCalls' = hCalls]_vars

\* C15 amended: the same, except that the Handler's Shutdown may still start
\* after the error line in the goroutine spawned before it; the main
\* goroutine calls nothing and spawns nothing further.
C15_Amended ==
    /\ [](pc = "returned" /\ srv # "nil"
            => Len(ErrorLines) + Len(FinishedLines) = 1)
    /\ [](ErrorLines # <<>> => pc \in {"defer", "returned"})
    /\ [][ErrorLines # <<>>
            => /\ log' = log /\ srvCalls' = srvCalls
               /\ (hnd = "none" => hnd' = "none")
               /\ (waiter = "none" => waiter' = "none")
               /\ (hCalls' > hCalls => hnd = "L201")]_vars

C15_Witness ==
    /\ pc = "returned" /\ Len(ErrorLines) = 1 /\ ErrorLines[1].err = "other"
    /\ srvErr = "nil" /\ hErr = "other" /\ Len(FinishedLines) = 0


\* line 97: Timeout is an exported package variable; another goroutine of
\* the program assigns it while shutdown() runs.  Only an assignment
\* between the statements of lines 169 and 172 is seen by shutdown(), and
\* each of the two unsynchronised reads yields the value before or after it.
SetTimeout(t) ==
    /\ Alive /\ pc \in {"L169", "L172"}
    /\ t # Timeout
    /\ Timeout' = t
    /\ UNCHANGED <<srv, hook, addrOK, logger, lg, log, entry, pc, calls,
                   accVars, sigVars, now, ctxVars, srvVars, raceVars>>

RaceNext == Next \/ \E t \in Timeouts : SetTimeout(t)

RaceSpec == Init /\ [][RaceNext]_vars

\* C16 as stated, with Timeout assigned concurrently: the duration in the
\* shutdown-announce line is the duration the deadline was computed from.
C16_Original ==
    Logged("shutdown") => ctx.made /\ ShutdownLog[1].n = tmoRead


\* C17 as stated: the seconds figure of the handler-shutdown-announce line
\* and of the finished-overall line is the remaining time until the
\* deadline rounded to the nearest whole second, whatever the remaining
\* time is.
C17_Original ==
    [][Logs("handlerShutdown") \/ Logs("finished")
         => log'[Len(log')].n = RoundSecs(ctx.deadline - now)]_vars


ListeningLines == SelectSeq(log, LAMBDA l : l.kind = "listening")

\* C18 as stated: for every Server passed to LogListenAndServe exactly one
\* listening line is logged, first of all lines, before the accept loop is
\* started and before the shutdown-announce line.
C18_Original ==
    entry = "LogListenAndServe"
        => /\ pc \in {"L114", "L123"} => acc = "none" /\ ~Logged("shutdown")
           /\ pc # "L114"
                => Len(ListeningLines) = 1 /\ log[1].kind = "listening"

\* C18 amended: exactly one listening line is logged, in that position, when
\* the Server is an *http.Server whose Addr splits into host and port, and
\* none otherwise; LogListenAndServe then goes on into ListenAndServe.
C18_Amended ==
    /\ [](entry = "LogListenAndServe"
            => /\ pc \in {"L114", "L123"}
                    => acc = "none" /\ ~Logged("shutdown")
               /\ pc = "L114" => srv = "http" /\ log = <<>>
               /\ pc # "L114"
                    => Len(ListeningLines)
                         = IF srv = "http" /\ addrOK THEN 1 ELSE 0)
    /\ [](\A i \in DOMAIN log :
            log[i].kind = "listening"
                => i = 1 /\ entry = "LogListenAndServe")
    /\ [][pc = "L123" /\ pc' # pc => pc' = "L128" /\ log' = log]_vars

C18_Witness ==
    /\ entry = "LogListenAndServe" /\ srv = "http" /\ addrOK
    /\ pc = "returned" /\ Logged("finished")
    /\ Kinds(log)[1] = "listening" /\ Len(ListeningLines) = 1


\* the statements of shutdown(), lines 160-217
ShutdownPcs ==
    {"L161", "L165", "L169", "L172", "L174", "L174w", "L175", "L177", "L180",
     "L181", "L188", "L193", "L195", "L200", "L204", "L212", "defer"}

\* where shutdown() goes next, told from the server, the handler, the
\* context and the channel alone, with no mention of the logger
AfterStep ==
    CASE pc = "L161" -> IF srv = "nil" THEN "returned" ELSE "L165"
      [] pc = "L165" -> "L169"
      [] pc = "L169" -> "L172"
      [] pc = "L172" -> "L174"
      [] pc = "L174" -> "L174w"
      [] pc = "L174w" -> "L175"
      [] pc = "L175" -> IF srvErr # "nil" THEN "defer" ELSE "L177"
      [] pc = "L177" -> IF srv = "http" THEN "L180" ELSE "L212"
      [] pc = "L180" -> IF hook THEN "L181" ELSE "L212"
      [] pc = "L181" -> IF ctx.err # "nil" THEN "defer" ELSE "L188"
      [] pc = "L188" -> "L193"
      [] pc = "L193" -> "L195"
      [] pc = "L195" -> "L200"
      [] pc = "L200" -> "L204"
      [] pc = "L204" -> IF Head(sendq).err # "nil" THEN "defer" ELSE "L212"
      [] pc = "L212" -> "defer"
      [] pc = "defer" -> "returned"
      [] OTHER -> pc

\* C19: the logger has no influence on the control flow of shutdown(): each
\* step goes where the server, the handler, the context and the channel
\* send it, whatever the logger is; the Server's Shutdown is called at line
\* 174 and the handler goroutine spawned at line 200 and nowhere else; and
\* an absent logger has been replaced by a discarding one before the first
\* line is logged.
C19_LoggerBlind ==
    /\ [][pc' # pc /\ pc \in ShutdownPcs => pc' = AfterStep]_vars
    /\ [][pc' # pc /\ pc \in ShutdownPcs
            => /\ (srvCalls' # srvCalls) <=> (pc = "L174")
               /\ (hnd = "none" /\ hnd' # "none") <=> (pc = "L200")]_vars
    /\ [](pc \in ShutdownPcs \ {"L161", "L165"}
            => lg \in {"discard", "stdout", "custom"})

C19_Witness ==
    /\ entry = "shutdown" /\ lg = "discard" /\ pc = "returned"
    /\ srvCalls = 1 /\ hCalls = 1 /\ Logged("finished")


\* ------------------------------------------------ graceful.go, the earlier
\* package: shutdown(s, logger, timeout) with the server phase alone.  The
\* statements are named after lines 168-201; the variant of lines 26-59 is
\* the same with *http.Server for Shutdowner.

\* shutdown(s, logger, timeout) called directly, as the tests do
OldCallShutdownDirect(l, t) ==
    /\ Alive /\ pc = "idle"
    /\ entry' = "oldShutdown"
    /\ lg' = l
    /\ tmoRead' = t
    /\ pc' = "G183"
    /\ calls' = calls + 1
    /\ UNCHANGED <<cfgVars, logger, log, accVars, sigVars, now, ctx, readDl,
                   srvVars, raceVars>>

\* Shutdown(s), line 168
OldCallShutdown ==
    /\ Alive /\ pc = "idle"
    /\ entry' = "oldShutdown"
    /\ pc' = "G175"
    /\ calls' = calls + 1
    /\ UNCHANGED <<cfgVars, logger, lg, log, accVars, sigVars, now, ctxVars,
                   srvVars, raceVars>>

\* line 175: c := make(chan os.Signal, 1)
OldMakeSignals ==
    /\ Alive /\ pc = "G175"
    /\ sigbuf' = 0
    /\ pc' = "G177"
    /\ UNCHANGED <<cfgVars, logger, lg, log, entry, calls, accVars, registered,
                   sigRecv, killed, now, ctxVars, srvVars, raceVars>>

\* line 177: signal.Notify(c, os.Interrupt, syscall.SIGTERM)
OldNotify ==
    /\ Alive /\ pc = "G177"
    /\ registered' = TRUE
    /\ pc' = "G179"
    /\ UNCHANGED <<cfgVars, logger, lg, log, entry, calls, accVars, sigbuf,
                   sigRecv, killed, now, ctxVars, srvVars, raceVars>>

\* lines 179 and 171: <-c, then shutdown(s, DefaultLogger, DefaultTimeout)
OldWait ==
    /\ Alive /\ pc = "G179"
    /\ sigbuf > 0
    /\ sigbuf' = sigbuf - 1
    /\ sigRecv' = sigRecv + 1
    /\ lg' = "stdout"
    /\ tmoRead' = Timeout
    /\ pc' = "G183"
    /\ UNCHANGED <<cfgVars, logger, log, entry, calls, accVars, registered,
                   killed, now, ctx, readDl, srvVars, raceVars>>

\* lines 183-185: if s == nil { return }
OldCheckNil ==
    /\ Alive /\ pc = "G183"
    /\ pc' = IF srv = "nil" THEN "returned" ELSE "G187"
    /\ UNCHANGED <<cfgVars, logger, lg, log, entry, calls, accVars, sigVars,
                   now, ctxVars, srvVars, raceVars>>

\* lines 187-189: if logger == nil { logger = log.New(ioutil.Discard, "", 0) }
OldDefaultLogger ==
    /\ Alive /\ pc = "G187"
    /\ lg' = IF lg = "nil" THEN "discard" ELSE lg
    /\ pc' = "G191"
    /\ UNCHANGED <<cfgVars, logger, log, entry, calls, accVars, sigVars, now,
                   ctxVars, srvVars, raceVars>>

\* lines 191-192: ctx, cancel := context.WithTimeout(..., timeout); defer cancel()
OldMakeCtx ==
    /\ Alive /\ pc = "G191"
    /\ ctx' = WithTimeout(tmoRead, now)
    /\ pc' = "G194"
    /\ UNCHANGED <<cfgVars, logger, lg, log, entry, calls, accVars, sigVars,
                   now, tmoRead, readDl, srvVars, raceVars>>

\* line 194: logger.Printf(ShutdownFormat, timeout)
OldAnnounce ==
    /\ Alive /\ pc = "G194"
    /\ Printf("shutdown", tmoRead, "")
    /\ pc' = "G196"
    /\ UNCHANGED <<cfgVars, logger, lg, entry, calls, accVars, sigVars, now,
                   ctxVars, srvVars, raceVars>>

\* line 196: s.Shutdown(ctx) is called
OldSrvShutdownCall ==
    /\ Alive /\ pc = "G196"
    /\ srvState' = "running"
    /\ srvCalls' = srvCalls + 1
    /\ srvCtx' = srvCtx \cup {ctx.deadline}
    /\ pc' = "G196w"
    /\ UNCHANGED <<cfgVars, logger, lg, log, entry, calls, accVars, sigVars,
                   now, ctxVars, srvErr, raceVars>>

\* line 196: s.Shutdown(ctx) returns err
OldSrvShutdownReturn(err) ==
    /\ Alive /\ pc = "G196w"
    /\ err \in ShutdownErrs
    /\ srvState' = "returned"
    /\ srvErr' = err
    /\ pc' = "G197"
    /\ UNCHANGED <<cfgVars, logger, lg, log, entry, calls, accVars, sigVars,
                   now, ctxVars, srvCalls, srvCtx, raceVars>>

\* OldCheckSrvErr with the else lost: the stopped line follows the error line
OldCheckSrvErrNoElse ==
    /\ Alive /\ pc = "G197"
    /\ log' = IF srvErr # "nil"
                THEN log \o <<Line("error", 0, srvErr), Line("stopped", 0, "")>>
                ELSE Append(log, Line("stopped", 0, ""))
    /\ pc' = "Gdefer"
    /\ UNCHANGED <<cfgVars, logger, lg, entry, calls, accVars, sigVars, now,
                   ctxVars, srvVars, raceVars>>

\* lines 196-200: if err != nil { Printf(ErrorFormat, err) } else { Printf(StoppedFormat) }
OldCheckSrvErr ==
    /\ Alive /\ pc = "G197"
    /\ IF srvErr # "nil"
         THEN Printf("error", 0, srvErr)
         ELSE Printf("stopped", 0, "")
    /\ pc' = "Gdefer"
    /\ UNCHANGED <<cfgVars, logger, lg, entry, calls, accVars, sigVars, now,
                   ctxVars, srvVars, raceVars>>

\* line 192: the deferred cancel() runs and shutdown returns
OldReturn ==
    /\ Alive /\ pc = "Gdefer"
    /\ ctx' = [ctx EXCEPT !.err = IF ctx.err = "nil" THEN "Canceled" ELSE ctx.err]
    /\ pc' = "returned"
    /\ UNCHANGED <<cfgVars, logger, lg, log, entry, calls, accVars, sigVars,
                   now, tmoRead, readDl, srvVars, raceVars>>

OldNext ==
    \/ Tick
    \/ Signal
    \/ CtxTimerFire
    \/ \E l \in Loggers, t \in Timeouts : OldCallShutdownDirect(l, t)
    \/ OldCallShutdown
    \/ OldMakeSignals
    \/ OldNotify
    \/ OldWait
    \/ OldCheckNil
    \/ OldDefaultLogger
    \/ OldMakeCtx
    \/ OldAnnounce
    \/ OldSrvShutdownCall
    \/ \E err \in Errors : OldSrvShutdownReturn(err)
    \/ OldCheckSrvErr
    \/ OldReturn
    \/ RepeatCall

OldSpec == Init /\ [][OldNext]_vars

\* C20: in the earlier package, shutdown(s, logger, timeout) with a non-nil
\* server logs the shutdown-announce line with the timeout and then exactly
\* one more line, the error line if the server's Shutdown returned an error
\* and the stopped line if it returned nil; with a nil server it logs
\* nothing and never calls Shutdown.
C20_SinglePhase ==
    /\ pc = "returned" /\ srv # "nil"
         => /\ srvCalls = 1
            /\ log = <<Line("shutdown", tmoRead, ""),
                       IF srvErr # "nil" THEN Line("error", 0, srvErr)
                                         ELSE Line("stopped", 0, "")>>
    /\ srv = "nil" => log = <<>> /\ srvCalls = 0
    /\ srvCalls = 0 /\ srv # "nil" => Len(log) <= 1
    /\ Len(log) <= 2

C20_Witness ==
    /\ pc = "returned" /\ srv = "http" /\ srvErr = "DeadlineExceeded"
    /\ tmoRead > 0 /\ Len(log) = 2 /\ log[2].kind = "error"

=============================================================================
